---------------------------- MODULE Spec2Model ----------------------------
(***************************************************************************)
(* The Verilator driver of the pi_calculator module (src/sim_main.cpp).    *)
(*                                                                         *)
(* main() is modelled statement by statement: pc names the statement that  *)
(* runs next.  The simulated module is opaque: eval() may leave any value  *)
(* on its output ports and may raise the runtime's finish flag ($finish).  *)
(* The history variables (evalLog, events, emitLog, validStream, vdSample, *)
(* exitPath, ref) only record what happened; no action's guard reads them. *)
(***************************************************************************)
EXTENDS Integers, Sequences, FiniteSets

\* Bound of the model: the number of eval() calls explored in one run.
MaxEvals == 6

\* const unsigned int REQUEST_DIGITS
REQUEST_DIGITS == 1000000

\* Width of a half of the 32-bit pi_digit port word (hi * 2^16 + lo).
HalfBits == 16

Half == 2 ^ HalfBits

\* A value of the 32-bit pi_digit port, kept as two 16-bit halves so that
\* the full unsigned range is representable.
Word(hi, lo) == [hi |-> hi, lo |-> lo]

\* The port values explored: 0, 3, 999999999, 1000000000, 2^31 + 1, 2^32 - 1.
PiDigitValues ==
    { Word(0, 0), Word(0, 3), Word(15258, 51711), Word(15258, 51712),
      Word(32768, 1), Word(65535, 65535) }

Bit == {0, 1}

-----------------------------------------------------------------------------
(* VL_PRINTF("%09d\n", top->pi_digit) *)

\* The int that printf's %d conversion reads from the 32-bit argument.
AsInt(w) ==
    IF w.hi >= Half \div 2 THEN (w.hi - Half) * Half + w.lo
                           ELSE w.hi * Half + w.lo

Chr(d) == <<"0", "1", "2", "3", "4", "5", "6", "7", "8", "9">>[d + 1]

RECURSIVE Digits(_)
Digits(n) == IF n < 10 THEN <<Chr(n)>>
                       ELSE Digits(n \div 10) \o <<Chr(n % 10)>>

RECURSIVE ZeroPad(_, _)
ZeroPad(s, w) == IF Len(s) >= w THEN s ELSE ZeroPad(<<"0">> \o s, w)

\* "%9d": the field is padded with blanks instead of zeros.
RECURSIVE BlankPad(_, _)
BlankPad(s, w) == IF Len(s) >= w THEN s ELSE BlankPad(<<" ">> \o s, w)

Format9d(w) ==
    LET n == AsInt(w)
    IN  IF n < 0 THEN BlankPad(<<"-">> \o Digits(-n), 9)
                 ELSE BlankPad(Digits(n), 9)

\* "%09d": minimum field width 9, zero padded, the sign before the zeros.
Format09d(w) ==
    LET n == AsInt(w)
    IN  IF n < 0 THEN <<"-">> \o ZeroPad(Digits(-n), 8)
                 ELSE ZeroPad(Digits(n), 9)

Line(w) == Format09d(w) \o <<"\n">>

-----------------------------------------------------------------------------
VARIABLES
    pc,            \* the statement of main() that runs next
    clock,         \* top->clock
    reset_n,       \* top->reset_n
    start,         \* top->start
    digits,        \* top->digits
    is_first_run,  \* bool is_first_run
    valid_output,  \* top->valid_output (driven by the module)
    pi_digit,      \* top->pi_digit     (driven by the module)
    done,          \* top->done         (driven by the module)
    gotFinish,     \* Verilated::gotFinish()
    stdout,        \* the lines written by VL_PRINTF, each a sequence of characters
    ret,           \* main's return value, -1 until it returns
    evalLog,       \* history: the inputs of every eval() call
    events,        \* history: the driver's operations in program order
    emitLog,       \* history: iteration, clock, valid_output, pi_digit at every print
    validStream,   \* history: pi_digit at every toggle to high with valid_output set
    vdSample,      \* history: the first toggle to high with valid_output and done set
    exitPath,      \* history: how the loop was left
    ref            \* history: DriverAdvance over the module outputs seen so far

vars == << pc, clock, reset_n, start, digits, is_first_run, valid_output,
           pi_digit, done, gotFinish, stdout, ret, evalLog, events, emitLog,
           validStream, vdSample, exitPath, ref >>

inputs  == << clock, reset_n, start, digits >>
outputs == << valid_output, pi_digit, done >>
history == << evalLog, events, emitLog, validStream, vdSample, exitPath, ref >>

\* main() as a function of what the module shows: one record per eval() call,
\* [valid, digit, done, finish], gives the driver's clock, its output, the
\* number of iterations run and the way the loop is left.
DriverStart ==
    [clock |-> 0, out |-> << >>, iters |-> 0, exit |-> "none"]

\* One pass through the loop body (lines 52-71) and the loop condition that
\* follows it (line 50), for the outputs o of this pass's eval().
DriverIteration(d, o) ==
    LET c == 1 - d.clock
        emit == c = 1 /\ o.valid = 1
    IN  [clock |-> c,
         out   |-> IF emit THEN Append(d.out, Line(o.digit)) ELSE d.out,
         iters |-> d.iters + 1,
         exit  |-> IF emit /\ o.done = 1 THEN "break"
                   ELSE IF o.finish THEN "finish" ELSE "none"]

\* The driver run on a prefix of the module's outputs: it stops at the first
\* exit.
DriverAdvance(d, o) == IF d.exit = "none" THEN DriverIteration(d, o) ELSE d

Count(s, x) == Cardinality({ i \in 1..Len(s) : s[i] = x })

\* top->clock = 1 at line 45: the first toggle is a falling one.
InitClockHigh ==
    /\ pc = "while"
    /\ clock = 1
    /\ reset_n = 0
    /\ start = 0
    /\ digits = REQUEST_DIGITS
    /\ is_first_run = TRUE
    /\ valid_output \in Bit
    /\ pi_digit \in PiDigitValues
    /\ done \in Bit
    /\ gotFinish = FALSE
    /\ stdout = << >>
    /\ ret = -1
    /\ evalLog = << >>
    /\ events = << >>
    /\ emitLog = << >>
    /\ validStream = << >>
    /\ vdSample = << >>
    /\ exitPath = "none"
    /\ ref = DriverStart

\* lines 39-48: the state when the loop is first reached.  The output ports
\* hold whatever the model's constructor left there.
Init ==
    /\ pc = "while"
    /\ clock = 0
    /\ reset_n = 0
    /\ start = 0
    /\ digits = REQUEST_DIGITS
    /\ is_first_run = TRUE
    /\ valid_output \in Bit
    /\ pi_digit \in PiDigitValues
    /\ done \in Bit
    /\ gotFinish = FALSE
    /\ stdout = << >>
    /\ ret = -1
    /\ evalLog = << >>
    /\ events = << >>
    /\ emitLog = << >>
    /\ validStream = << >>
    /\ vdSample = << >>
    /\ exitPath = "none"
    /\ ref = DriverStart

\* while (true): the finish flag is not looked at.
LoopCondForever ==
    /\ pc = "while"
    /\ pc' = "eval"
    /\ UNCHANGED << inputs, outputs, is_first_run, gotFinish, stdout, ret, history >>

\* The loop body starts with the first-run block: eval() is not called.
LoopCondNoEval ==
    /\ pc = "while"
    /\ IF gotFinish
         THEN pc' = "final" /\ exitPath' = "finish"
         ELSE pc' = "first_run" /\ exitPath' = exitPath
    /\ UNCHANGED << inputs, outputs, is_first_run, gotFinish, stdout, ret,
                    evalLog, events, emitLog, validStream, vdSample, ref >>

\* while (!Verilated::gotFinish() && lines written < top->digits)
LoopCondCountCutoff ==
    /\ pc = "while"
    /\ IF gotFinish \/ Len(stdout) >= digits
         THEN pc' = "final" /\ exitPath' = "finish"
         ELSE pc' = "eval" /\ exitPath' = exitPath
    /\ UNCHANGED << inputs, outputs, is_first_run, gotFinish, stdout, ret,
                    evalLog, events, emitLog, validStream, vdSample, ref >>

\* line 50: while (!Verilated::gotFinish())
LoopCond ==
    /\ pc = "while"
    /\ IF gotFinish
         THEN pc' = "final" /\ exitPath' = "finish"
         ELSE pc' = "eval" /\ exitPath' = exitPath
    /\ UNCHANGED << inputs, outputs, is_first_run, gotFinish, stdout, ret,
                    evalLog, events, emitLog, validStream, vdSample, ref >>

\* line 52: top->eval().  The module computes its outputs from the inputs and
\* its own state; it may call $finish, which sets the finish flag for good.
Eval ==
    /\ pc = "eval"
    /\ Len(evalLog) < MaxEvals
    /\ valid_output' \in Bit
    /\ pi_digit' \in PiDigitValues
    /\ done' \in Bit
    /\ gotFinish' \in {gotFinish, TRUE}
    /\ evalLog' = Append(evalLog, [clock |-> clock, reset_n |-> reset_n,
                                   start |-> start, digits |-> digits])
    /\ events' = Append(events, "eval")
    /\ ref' = DriverAdvance(ref, [valid |-> valid_output', digit |-> pi_digit',
                                  done |-> done', finish |-> gotFinish'])
    /\ pc' = "first_run"
    /\ UNCHANGED << inputs, is_first_run, stdout, ret, emitLog, validStream,
                    vdSample, exitPath >>

\* The first-run block without "is_first_run = false".
FirstRunNoClear ==
    /\ pc = "first_run"
    /\ IF is_first_run
         THEN /\ reset_n' = 1
              /\ start' = 1
              /\ events' = Append(events, "raise")
         ELSE UNCHANGED << reset_n, start, events >>
    /\ pc' = "toggle"
    /\ UNCHANGED << clock, digits, is_first_run, outputs, gotFinish, stdout, ret,
                    evalLog, emitLog, validStream, vdSample, exitPath, ref >>

\* start is a pulse: it is lowered again in every run after the first.
FirstRunStartPulse ==
    /\ pc = "first_run"
    /\ IF is_first_run
         THEN /\ reset_n' = 1
              /\ start' = 1
              /\ is_first_run' = FALSE
              /\ events' = Append(events, "raise")
         ELSE /\ start' = 0
              /\ UNCHANGED << reset_n, is_first_run, events >>
    /\ pc' = "toggle"
    /\ UNCHANGED << clock, digits, outputs, gotFinish, stdout, ret, evalLog,
                    emitLog, validStream, vdSample, exitPath, ref >>

\* lines 54-58: if (is_first_run) { reset_n = 1; start = 1; is_first_run = false; }
FirstRun ==
    /\ pc = "first_run"
    /\ IF is_first_run
         THEN /\ reset_n' = 1
              /\ start' = 1
              /\ is_first_run' = FALSE
              /\ events' = Append(events, "raise")
         ELSE UNCHANGED << reset_n, start, is_first_run, events >>
    /\ pc' = "toggle"
    /\ UNCHANGED << clock, digits, outputs, gotFinish, stdout, ret, evalLog,
                    emitLog, validStream, vdSample, exitPath, ref >>

\* top->clock = 1: the clock is set, not negated.
ToggleSetHigh ==
    /\ pc = "toggle"
    /\ clock' = 1
    /\ events' = Append(events, "toggle")
    /\ validStream' = IF clock' = 1 /\ valid_output = 1
                        THEN Append(validStream, pi_digit)
                        ELSE validStream
    /\ vdSample' = IF clock' = 1 /\ valid_output = 1 /\ done = 1 /\ vdSample = << >>
                     THEN << [evals   |-> Len(evalLog),
                              toggles |-> Count(events', "toggle"),
                              lines   |-> Len(stdout),
                              digit   |-> pi_digit] >>
                     ELSE vdSample
    /\ pc' = "if_clock"
    /\ UNCHANGED << reset_n, start, digits, is_first_run, outputs, gotFinish,
                    stdout, ret, evalLog, emitLog, exitPath, ref >>

\* line 60: top->clock = !top->clock.  The histories note what the output
\* ports show at a toggle to high.
Toggle ==
    /\ pc = "toggle"
    /\ clock' = 1 - clock
    /\ events' = Append(events, "toggle")
    /\ validStream' = IF clock' = 1 /\ valid_output = 1
                        THEN Append(validStream, pi_digit)
                        ELSE validStream
    /\ vdSample' = IF clock' = 1 /\ valid_output = 1 /\ done = 1 /\ vdSample = << >>
                     THEN << [evals   |-> Len(evalLog),
                              toggles |-> Count(events', "toggle"),
                              lines   |-> Len(stdout),
                              digit   |-> pi_digit] >>
                     ELSE vdSample
    /\ pc' = "if_clock"
    /\ UNCHANGED << reset_n, start, digits, is_first_run, outputs, gotFinish,
                    stdout, ret, evalLog, emitLog, exitPath, ref >>

\* The outputs are looked at in both clock phases.
IfClockBothPhases ==
    /\ pc = "if_clock"
    /\ pc' = "if_valid"
    /\ UNCHANGED << inputs, outputs, is_first_run, gotFinish, stdout, ret, history >>

\* The test reads an indeterminate value: either branch may be taken.
IfClockIndeterminate ==
    /\ pc = "if_clock"
    /\ pc' \in {"if_valid", "while"}
    /\ UNCHANGED << inputs, outputs, is_first_run, gotFinish, stdout, ret, history >>

\* if (!top->clock): the outputs are looked at after the falling toggle.
IfClockFalling ==
    /\ pc = "if_clock"
    /\ pc' = IF clock = 0 THEN "if_valid" ELSE "while"
    /\ UNCHANGED << inputs, outputs, is_first_run, gotFinish, stdout, ret, history >>

\* line 62: if (top->clock)
IfClock ==
    /\ pc = "if_clock"
    /\ pc' = IF clock = 1 THEN "if_valid" ELSE "while"
    /\ UNCHANGED << inputs, outputs, is_first_run, gotFinish, stdout, ret, history >>

\* The digit is printed whatever valid_output is.
IfValidAlways ==
    /\ pc = "if_valid"
    /\ pc' = "print"
    /\ UNCHANGED << inputs, outputs, is_first_run, gotFinish, stdout, ret, history >>

\* The done test is outside the valid_output block.
IfValidDoneOutside ==
    /\ pc = "if_valid"
    /\ pc' = IF valid_output = 1 THEN "print" ELSE "if_done"
    /\ UNCHANGED << inputs, outputs, is_first_run, gotFinish, stdout, ret, history >>

\* The finish flag is looked at again before a line is written.
IfValidUnlessFinish ==
    /\ pc = "if_valid"
    /\ pc' = IF valid_output = 1 /\ ~gotFinish THEN "print" ELSE "while"
    /\ UNCHANGED << inputs, outputs, is_first_run, gotFinish, stdout, ret, history >>

\* line 63: if (top->valid_output)
IfValid ==
    /\ pc = "if_valid"
    /\ pc' = IF valid_output = 1 THEN "print" ELSE "while"
    /\ UNCHANGED << inputs, outputs, is_first_run, gotFinish, stdout, ret, history >>

\* The new line is put in front of the earlier output.
VlPrintfInFront ==
    /\ pc = "print"
    /\ stdout' = << Line(pi_digit) >> \o stdout
    /\ emitLog' = Append(emitLog, [iter |-> Len(evalLog), clock |-> clock,
                                   valid |-> valid_output, digit |-> pi_digit])
    /\ events' = Append(events, "emit")
    /\ pc' = "if_done"
    /\ UNCHANGED << inputs, outputs, is_first_run, gotFinish, ret, evalLog,
                    validStream, vdSample, exitPath, ref >>

\* line 65: VL_PRINTF("%09d\n", top->pi_digit)
VlPrintf ==
    /\ pc = "print"
    /\ stdout' = Append(stdout, Line(pi_digit))
    /\ emitLog' = Append(emitLog, [iter |-> Len(evalLog), clock |-> clock,
                                   valid |-> valid_output, digit |-> pi_digit])
    /\ events' = Append(events, "emit")
    /\ pc' = "if_done"
    /\ UNCHANGED << inputs, outputs, is_first_run, gotFinish, ret, evalLog,
                    validStream, vdSample, exitPath, ref >>

\* The done test does not leave the loop.
IfDoneNoBreak ==
    /\ pc = "if_done"
    /\ pc' = "while"
    /\ UNCHANGED << inputs, outputs, is_first_run, gotFinish, stdout, ret, history >>

\* "return 0" in place of "break": final() and delete are skipped.
IfDoneReturn ==
    /\ pc = "if_done"
    /\ IF done = 1
         THEN pc' = "return" /\ exitPath' = "break"
         ELSE pc' = "while" /\ exitPath' = exitPath
    /\ UNCHANGED << inputs, outputs, is_first_run, gotFinish, stdout, ret,
                    evalLog, events, emitLog, validStream, vdSample, ref >>

\* lines 67-69: if (top->done) break;
IfDone ==
    /\ pc = "if_done"
    /\ IF done = 1
         THEN pc' = "final" /\ exitPath' = "break"
         ELSE pc' = "while" /\ exitPath' = exitPath
    /\ UNCHANGED << inputs, outputs, is_first_run, gotFinish, stdout, ret,
                    evalLog, events, emitLog, validStream, vdSample, ref >>

\* line 74: top->final()
Final ==
    /\ pc = "final"
    /\ events' = Append(events, "final")
    /\ pc' = "delete"
    /\ UNCHANGED << inputs, outputs, is_first_run, gotFinish, stdout, ret,
                    evalLog, emitLog, validStream, vdSample, exitPath, ref >>

\* line 75: delete top
Delete ==
    /\ pc = "delete"
    /\ events' = Append(events, "delete")
    /\ pc' = "return"
    /\ UNCHANGED << inputs, outputs, is_first_run, gotFinish, stdout, ret,
                    evalLog, emitLog, validStream, vdSample, exitPath, ref >>

\* line 76: return 0
Return ==
    /\ pc = "return"
    /\ ret' = 0
    /\ events' = Append(events, "return")
    /\ pc' = "exited"
    /\ UNCHANGED << inputs, outputs, is_first_run, gotFinish, stdout,
                    evalLog, emitLog, validStream, vdSample, exitPath, ref >>

Next ==
    \/ LoopCond
    \/ Eval
    \/ FirstRun
    \/ Toggle
    \/ IfClock
    \/ IfValid
    \/ VlPrintf
    \/ IfDone
    \/ Final
    \/ Delete
    \/ Return

Spec == Init /\ [][Next]_vars

\* One thread of control that never blocks: a statement that can run does run.
FairSpec == Spec /\ WF_vars(Next)

\* Bound of the model: a digit count small enough to be exceeded within
\* MaxEvals evaluations.
SmallRequest == 2

\* The driver built with REQUEST_DIGITS as it is, or with a small count in its
\* place: line 37 is the only place that fixes the number, and lines 48-76 take
\* whatever it is.
RequestValues == { SmallRequest, REQUEST_DIGITS }

InitAnyRequest ==
    /\ pc = "while"
    /\ clock = 0
    /\ reset_n = 0
    /\ start = 0
    /\ digits \in RequestValues
    /\ is_first_run = TRUE
    /\ valid_output \in Bit
    /\ pi_digit \in PiDigitValues
    /\ done \in Bit
    /\ gotFinish = FALSE
    /\ stdout = << >>
    /\ ret = -1
    /\ evalLog = << >>
    /\ events = << >>
    /\ emitLog = << >>
    /\ validStream = << >>
    /\ vdSample = << >>
    /\ exitPath = "none"
    /\ ref = DriverStart

RequestSpec == InitAnyRequest /\ [][Next]_vars

-----------------------------------------------------------------------------
(* Helpers of the properties below. *)

Loop == { "while", "eval", "first_run", "toggle", "if_clock", "if_valid",
          "print", "if_done" }

AfterLoop == { "final", "delete", "return", "exited" }

\* An iteration has run to its end: the loop condition is next, or the loop
\* has been left.
IterationOver == Len(evalLog) > 0 /\ pc \in {"while"} \cup AfterLoop

\* The driver has toggled the clock to high, the module shows a valid output
\* and the line for it is not written yet.
EmitPending ==
    /\ pc \in {"if_clock", "if_valid", "print"}
    /\ clock = 1
    /\ valid_output = 1

-----------------------------------------------------------------------------
\* C1 (order preservation): the lines written are, in the same order, the
\* pi_digit values read at the toggles to high at which valid_output was set:
\* no such sample is dropped, duplicated or reordered.  Between the toggle and
\* the print of an iteration the last sample is the one still to be written.
C1_OrderPreserved ==
    LET want == [i \in 1..Len(validStream) |-> Line(validStream[i])]
    IN  /\ stdout = IF EmitPending THEN SubSeq(want, 1, Len(want) - 1) ELSE want
        /\ Len(emitLog) = Len(stdout)
        /\ \A i \in DOMAIN emitLog :
              emitLog[i].digit =
                 validStream[i]

\* Two different digits were written, around a rising sample without a valid
\* output, and the run is over.
C1_Witness ==
    /\ pc = "exited"
    /\ Len(stdout) = 2
    /\ emitLog[1].iter = 1
    /\ emitLog[2].iter = 5
    /\ stdout[1] # stdout[2]

\* C2 (termination correctness): once a toggle to high has shown valid_output
\* and done together, the driver evaluates no more, toggles no more, writes
\* exactly that sample's line and nothing after it, and leaves the loop by the
\* break; and the break is taken only at such a sample.
C2_TerminationCorrect ==
    /\ exitPath = "break" => vdSample # << >>
    /\ vdSample # << >> =>
          LET s == vdSample[1]
          IN  /\ Len(evalLog) = s.evals
              /\ Count(events, "toggle") = s.toggles
              /\ pc \in {"if_clock", "if_valid", "print", "if_done"} \cup AfterLoop
              /\ IF pc \in {"if_clock", "if_valid", "print"}
                   THEN Len(stdout) = s.lines
                   ELSE /\ Len(stdout) = s.lines + 1
                        /\ stdout[Len(stdout)] = Line(s.digit)
              /\ pc \in AfterLoop => exitPath = "break"

\* The third evaluation is the first to show valid_output and done together;
\* one digit was written before it and the run is over.
C2_Witness ==
    /\ pc = "exited"
    /\ vdSample # << >>
    /\ vdSample[1].evals = 3
    /\ Len(stdout) = 2

\* C3 (single sample per cycle): no iteration writes two lines; every line is
\* written with the clock high and valid_output set; and when an iteration is
\* over it has written a line if and only if its toggle left the clock high
\* and valid_output was set then.
C3_SingleSamplePerCycle ==
    /\ \A i, j \in DOMAIN emitLog : i # j => emitLog[i].iter # emitLog[j].iter
    /\ \A i \in DOMAIN emitLog : emitLog[i].clock = 1 /\ emitLog[i].valid = 1
    /\ IterationOver =>
          ((\E i \in DOMAIN emitLog : emitLog[i].iter = Len(evalLog))
              <=> (clock = 1 /\ valid_output = 1))

\* The fourth iteration left the clock low with valid_output set and wrote
\* nothing, after the third had written a line.
C3_Witness ==
    /\ pc = "while"
    /\ Len(evalLog) = 4
    /\ clock = 0
    /\ valid_output = 1
    /\ Len(emitLog) > 0
    /\ emitLog[Len(emitLog)].iter = 3

\* C4 (exactly-once initialization): reset_n and start are always equal; they
\* are raised once, right after the first evaluation and before the first
\* toggle; the first evaluation sees both low and every later one both high.
C4_ExactlyOnceInit ==
    /\ reset_n = start
    /\ Count(events, "raise") <= 1
    /\ Len(events) >= 2 => events[1] = "eval" /\ events[2] = "raise"
    /\ reset_n = IF Len(events) >= 2 THEN 1 ELSE 0
    /\ is_first_run <=> Len(events) < 2
    /\ \A i \in DOMAIN evalLog :
          /\ evalLog[i].reset_n = IF i = 1 THEN 0 ELSE 1
          /\ evalLog[i].start = IF i = 1 THEN 0 ELSE 1

\* A finished run of at least three evaluations.
C4_Witness ==
    /\ pc = "exited"
    /\ Len(evalLog) >= 3
    /\ Count(events, "raise") = 1

\* C5 (finalization): final() is called at most once and nothing but the
\* delete and the return follows it; a run that has ended has called final()
\* once, then deleted the instance once, then returned 0, whichever way the
\* loop was left.
C5_Finalization ==
    /\ Count(events, "final") <= 1
    /\ Count(events, "delete") <= 1
    /\ Count(events, "final") = 1 => pc \in {"delete", "return", "exited"}
    /\ pc \in AfterLoop => exitPath \in {"break", "finish"}
    /\ pc \in Loop => exitPath = "none" /\ ret = -1
    /\ pc = "exited" =>
          /\ ret = 0
          /\ Len(events) >= 4
          /\ SubSeq(events, Len(events) - 2, Len(events))
                = << "final", "delete", "return" >>
          /\ events[Len(events) - 3] \in {"eval", "toggle", "emit"}
          /\ Count(events, "final") = 1
          /\ Count(events, "delete") = 1

\* A run that left the loop by the break has ended.
C5_Witness ==
    /\ pc = "exited"
    /\ exitPath = "break"
    /\ Len(evalLog) >= 3

\* C6 (done without valid is not completion): the loop is left by the break
\* only with the clock high and valid_output and done both set, and otherwise
\* only with the finish flag set; an iteration that ends with valid_output
\* clear has written nothing.
C6_DoneAloneNotCompletion ==
    /\ exitPath = "break" => clock = 1 /\ valid_output = 1 /\ done = 1
    /\ exitPath = "finish" => gotFinish
    /\ (IterationOver /\ valid_output = 0) =>
          ~ \E i \in DOMAIN emitLog : emitLog[i].iter = Len(evalLog)
    /\ (IterationOver /\ done = 1 /\ ~gotFinish
           /\ ~(clock = 1 /\ valid_output = 1)) => pc = "while"

\* After a rising sample that showed done without valid_output the loop has
\* gone on to its next evaluation, having written nothing.
C6_Witness ==
    /\ pc = "eval"
    /\ Len(evalLog) = 1
    /\ clock = 1
    /\ done = 1
    /\ valid_output = 0
    /\ stdout = << >>

-----------------------------------------------------------------------------
(* Reading a written line back. *)

DecimalChars == { Chr(d) : d \in 0..9 }

DigitValue(c) == CHOOSE d \in 0..9 : Chr(d) = c

RECURSIVE ParseDecimal(_)
ParseDecimal(s) ==
    IF s = << >> THEN 0
    ELSE ParseDecimal(SubSeq(s, 1, Len(s) - 1)) * 10 + DigitValue(s[Len(s)])

\* The integer a field of decimal digits with an optional leading '-' denotes.
ParseField(s) ==
    IF s[1] = "-" THEN - ParseDecimal(SubSeq(s, 2, Len(s))) ELSE ParseDecimal(s)

IsField(s) ==
    /\ Len(s) >= 1
    /\ s[1] \in DecimalChars \cup {"-"}
    /\ \A k \in 2..Len(s) : s[k] \in DecimalChars
    /\ s[1] = "-" => Len(s) >= 2

-----------------------------------------------------------------------------
\* The evaluations and the input changes of the run, in program order.
InputOps == SelectSeq(events, LAMBDA e : e \in {"eval", "raise", "toggle"})

\* C9 (evaluate-first ordering): the first operation on the module is an
\* evaluation; every toggle directly follows that iteration's evaluation, or
\* the raise of reset_n and start that directly follows the evaluation; every
\* later evaluation directly follows a toggle.  So evaluations and toggles
\* alternate and the clock is never toggled twice without an evaluation.
C9_EvaluateFirst ==
    LET ops == InputOps
    IN  /\ Len(ops) > 0 => ops[1] = "eval"
        /\ \A i \in 2..Len(ops) :
              /\ ops[i] = "eval" => ops[i - 1] = "toggle"
              /\ ops[i] = "raise" => ops[i - 1] = "eval"
              /\ ops[i] = "toggle" => ops[i - 1] \in {"eval", "raise"}
        /\ Count(events, "toggle") \in {Len(evalLog) - 1, Len(evalLog)}
        /\ \A i \in DOMAIN events :
              events[i] = "emit" => i > 1 /\ events[i - 1] = "toggle"

\* Four iterations have run: the fourth toggle has been done.
C9_Witness ==
    /\ Count(events, "toggle") = 4
    /\ Len(evalLog) = 4
    /\ pc = "if_clock"

\* C10 (never-valid producer): as long as no toggle to high has shown
\* valid_output set, nothing is written and the break is not taken, whatever
\* pi_digit and done are; and once the finish flag is set such a run goes
\* through final() once and returns 0 with no line written.
C10_NeverValid ==
    /\ [](validStream = << >> =>
             /\ stdout = << >>
             /\ exitPath # "break"
             /\ pc = "exited" => /\ ret = 0
                                 /\ exitPath = "finish"
                                 /\ Count(events, "final") = 1)
    /\ gotFinish ~> \/ validStream # << >>
                    \/ /\ pc = "exited"
                       /\ ret = 0
                       /\ stdout = << >>
                       /\ Count(events, "final") = 1

\* A run of four evaluations that never showed valid_output at a rising
\* sample, though done was set at one, has ended.
C10_Witness ==
    /\ pc = "exited"
    /\ validStream = << >>
    /\ Len(evalLog) = 4
    /\ done = 1
    /\ clock = 0
    /\ stdout = << >>

-----------------------------------------------------------------------------
\* C11 (no count-based cutoff): the loop is left only at the loop condition
\* with the finish flag set, or at the done test with the clock high and
\* valid_output and done set; no other step leaves it, and inside the loop
\* the driver always has a next step (up to the model's bound on eval()
\* calls), however the number of lines written compares with top->digits.
C11_NoCountCutoff ==
    /\ [](pc \in AfterLoop =>
             \/ exitPath = "finish" /\ gotFinish
             \/ exitPath = "break" /\ clock = 1 /\ valid_output = 1 /\ done = 1)
    /\ [][(pc \in Loop /\ pc' \in AfterLoop) =>
             \/ pc = "while" /\ gotFinish
             \/ pc = "if_done" /\ clock = 1 /\ valid_output = 1 /\ done = 1]_vars
    /\ []((pc \in Loop /\ ~(pc = "eval" /\ Len(evalLog) >= MaxEvals))
             => ENABLED Next)

\* Three lines were written for a request of two digits, and the driver has
\* evaluated the module again after that.
C11_Witness ==
    /\ pc = "first_run"
    /\ Len(evalLog) = 6
    /\ Len(stdout) = 3
    /\ Len(stdout) > digits

\* C12 (input frame): top->digits is REQUEST_DIGITS from the start and at
\* every evaluation and no step changes it; once reset_n and start have been
\* raised they stay 1 and no step writes them again, so from then on the only
\* input that changes is the clock, and only in the toggle.
C12_InputFrame ==
    /\ [](digits = REQUEST_DIGITS)
    /\ [](\A i \in DOMAIN evalLog : evalLog[i].digits = REQUEST_DIGITS)
    /\ []((Len(evalLog) >= 1 /\ pc # "first_run") => reset_n = 1 /\ start = 1)
    /\ [](\A i \in DOMAIN events : events[i] = "raise" => i = 2)
    /\ [][digits' = digits]_vars
    /\ [][Count(events, "raise") = 1 =>
             /\ reset_n' = reset_n
             /\ start' = start
             /\ events' # Append(events, "raise")]_vars
    /\ [][clock' # clock => pc = "toggle"]_vars

\* In the fourth iteration the clock has been toggled back to low; reset_n,
\* start and the digit count are as the first iteration left them.
C12_Witness ==
    /\ pc = "if_clock"
    /\ Len(evalLog) = 4
    /\ clock = 0
    /\ reset_n = 1
    /\ start = 1
    /\ digits = REQUEST_DIGITS
    /\ evalLog[4].digits = REQUEST_DIGITS

\* C13 (determinism): what a run has done is a function of what the module
\* has shown it.  Whenever an iteration is over, the number of iterations, the
\* clock, the lines written and the way the loop is left are those that
\* DriverAdvance computes from the outputs and finish indications of the
\* evaluations so far; so two runs shown the same outputs agree on all of them.
C13_Determinism ==
    /\ ref.iters = Len(evalLog)
    /\ IterationOver =>
          /\ ref.out = stdout
          /\ ref.clock = clock
          /\ pc \in AfterLoop => ref.exit = exitPath
          /\ pc = "while" => ref.exit = IF gotFinish THEN "finish" ELSE "none"
    /\ pc \in Loop \ {"while"} => ref.exit \in {"none", "finish", "break"}
    /\ (pc \in Loop /\ ref.exit = "none") => ~gotFinish

\* A run of five iterations that wrote two lines and left by the break.
C13_Witness ==
    /\ pc = "exited"
    /\ ref.iters = 5
    /\ Len(ref.out) = 2
    /\ ref.exit = "break"
    /\ exitPath = "break"

\* C14 (clock alternation): the clock is the parity of the number of toggles
\* done, and there is one toggle per iteration; the i-th evaluation is done
\* with the clock at (i - 1) mod 2, low in odd iterations and high in even
\* ones; the outputs are looked at, and lines written, in odd iterations only,
\* and in every odd iteration the clock test passes.
C14_ClockAlternation ==
    /\ [](clock = Count(events, "toggle") % 2)
    /\ [](Count(events, "toggle") \in {Len(evalLog) - 1, Len(evalLog)})
    /\ [](pc \in {"if_clock", "if_valid", "print", "if_done", "while"}
             => Count(events, "toggle") = Len(evalLog))
    /\ [](\A i \in DOMAIN evalLog : evalLog[i].clock = (i - 1) % 2)
    /\ [](pc \in {"if_valid", "print", "if_done"} => Len(evalLog) % 2 = 1)
    /\ [](\A i \in DOMAIN emitLog : emitLog[i].iter % 2 = 1)
    /\ [][pc = "if_clock" =>
             (pc' = "if_valid" <=> Len(evalLog) % 2 = 1)]_vars

\* The fifth iteration looks at the outputs with the clock high, after a
\* fourth evaluation done with the clock high.
C14_Witness ==
    /\ pc = "if_valid"
    /\ Len(evalLog) = 5
    /\ clock = 1
    /\ evalLog[4].clock = 1
    /\ evalLog[5].clock = 0

-----------------------------------------------------------------------------
\* The operations done since the last eval() call.
LastEval ==
    IF \E k \in DOMAIN events : events[k] = "eval"
      THEN CHOOSE k \in DOMAIN events :
              /\ events[k] = "eval"
              /\ \A j \in DOMAIN events : j > k => events[j] # "eval"
      ELSE 0

SinceLastEval == SubSeq(events, LastEval + 1, Len(events))

\* C15 (emission after runtime finish): the finish flag is set by an
\* evaluation and is looked at only at the loop condition.  Once it is set
\* there is no further evaluation, so everything since the last evaluation
\* was done with the flag set: that is at most one raise of reset_n and start
\* (only after the first evaluation), one toggle and at most one line; the
\* rest of the iteration runs as it would with the flag clear, a line being
\* written if and only if the toggle left the clock high with valid_output
\* set; and no step but the loop condition or the break leaves the loop.
C15_EmissionAfterFinish ==
    /\ [][gotFinish => /\ evalLog' = evalLog
                       /\ events' # Append(events, "eval")]_vars
    /\ [][gotFinish' # gotFinish => pc = "eval" /\ gotFinish']_vars
    /\ [](gotFinish =>
             /\ LastEval > 0
             /\ Count(SinceLastEval, "raise") <= 1
             /\ Count(SinceLastEval, "raise") = 1 => LastEval = 1
             /\ Count(SinceLastEval, "toggle") <= 1
             /\ Count(SinceLastEval, "emit") <= 1)
    /\ []((gotFinish /\ IterationOver) =>
             /\ Count(SinceLastEval, "toggle") = 1
             /\ Count(SinceLastEval, "emit") = 1
                   <=> (clock = 1 /\ valid_output = 1))
    /\ [][(gotFinish /\ pc \in Loop /\ pc' \in AfterLoop) =>
             \/ pc = "while"
             \/ pc = "if_done" /\ done = 1]_vars

\* The first evaluation set the finish flag; the driver still raised reset_n
\* and start, toggled the clock and wrote a line before the loop condition
\* ended the run.
C15_Witness ==
    /\ pc = "exited"
    /\ gotFinish
    /\ exitPath = "finish"
    /\ events = << "eval", "raise", "toggle", "emit", "final", "delete", "return" >>
    /\ Len(stdout) = 1

-----------------------------------------------------------------------------
\* C16 (sample taken under reset): the first evaluation is done with clock,
\* reset_n and start all 0, and the first iteration's toggle leaves the clock
\* high, so its outputs are sampled: when that iteration is over a line for
\* pi_digit has been written if and only if valid_output is set, and if done
\* is set too the loop has been left by the break.  A run that ended this way
\* evaluated the module once, and never with reset_n or start at 1.
C16_SampleUnderReset ==
    /\ Len(evalLog) >= 1 =>
          evalLog[1] = [clock |-> 0, reset_n |-> 0, start |-> 0,
                        digits |-> REQUEST_DIGITS]
    /\ (Len(evalLog) = 1 /\ pc \in {"if_clock", "if_valid", "print", "if_done"})
          => clock = 1
    /\ (Len(evalLog) = 1 /\ IterationOver) =>
          /\ clock = 1
          /\ stdout = IF valid_output = 1 THEN << Line(pi_digit) >> ELSE << >>
          /\ valid_output = 1 => emitLog[1].iter = 1
          /\ (valid_output = 1 /\ done = 1) <=> exitPath = "break"
          /\ exitPath = "break" => pc \in AfterLoop
    /\ (vdSample # << >> /\ vdSample[1].evals = 1) =>
          /\ Len(evalLog) = 1
          /\ \A i \in DOMAIN evalLog :
                evalLog[i].reset_n = 0 /\ evalLog[i].start = 0

\* The run has ended by the break after a single evaluation, done under
\* reset; its one line is out, and reset_n and start were raised but never
\* evaluated.
C16_Witness ==
    /\ pc = "exited"
    /\ exitPath = "break"
    /\ Len(evalLog) = 1
    /\ evalLog[1].reset_n = 0
    /\ Len(stdout) = 1
    /\ reset_n = 1
    /\ start = 1

-----------------------------------------------------------------------------
\* The clock input of the latest evaluation.
LastEvalClock == evalLog[Len(evalLog)].clock

\* C17 (sampling point): the outputs change only in eval(); they are looked
\* at with the clock input already high but last evaluated with it low, so
\* every line written and every break comes from an evaluation done with the
\* clock low.  When an iteration whose evaluation was done with the clock
\* high is over, nothing has been written for it and the break has not been
\* taken, whatever valid_output and done show.
C17_SamplingPoint ==
    /\ [][outputs' # outputs => pc = "eval"]_vars
    /\ [](pc \in {"if_valid", "print", "if_done"} =>
             clock = 1 /\ LastEvalClock = 0)
    /\ [](\A i \in DOMAIN emitLog : evalLog[emitLog[i].iter].clock = 0)
    /\ [](exitPath = "break" => LastEvalClock = 0)
    /\ []((IterationOver /\ LastEvalClock = 1) =>
             /\ ~ \E i \in DOMAIN emitLog : emitLog[i].iter = Len(evalLog)
             /\ exitPath # "break"
             /\ ~gotFinish => pc = "while")
    /\ [][(pc = "while" /\ ~gotFinish /\ Len(evalLog) > 0 /\ LastEvalClock = 1)
             => pc' = "eval" /\ stdout' = stdout]_vars

\* The second evaluation, done with the clock high, showed valid_output and
\* done; nothing was written and the loop has gone on to its third
\* evaluation.
C17_Witness ==
    /\ pc = "eval"
    /\ Len(evalLog) = 2
    /\ evalLog[2].clock = 1
    /\ valid_output = 1
    /\ done = 1
    /\ stdout = << >>
    /\ exitPath = "none"

=============================================================================
